---- MODULE Spec2Model ----
(***************************************************************************)
(* Paging memory-management simulator (etauto-an/351PA3).                  *)
(*                                                                         *)
(* The model follows src/memory.c (page-table allocator), src/scheduler.c  *)
(* (FIFO input queue) and the clock loop of src/main.c.  Two               *)
(* specifications are given:                                               *)
(*   Spec      - the clock loop of main() on a bounded workload;           *)
(*   SpecAlloc - the allocator API (allocate_memory / deallocate_memory)   *)
(*               called with arbitrary process ids and segment lists,      *)
(*               starting from the table init_memory builds.               *)
(***************************************************************************)
EXTENDS Integers, Sequences, FiniteSets

(***************************************************************************)
(* Bounds of the model.                                                    *)
(***************************************************************************)
\* number of processes in the workload file
NumProcs == 2
\* arrival_time ranges over 0..MaxArrival
MaxArrival == 1
\* lifetime is the shortest one, 1, or the longest one, MaxLifetime
MaxLifetime == 2
\* the loop bound of main.c:61 (100000 in the source), scaled down
MAX_TICK == 4
\* argv[3]
PageSize == 2
\* total_memory / page_size
TotalPages == 3

\* the segment lists (piece_sizes, in KB) a process may request:
\* 1, 2, 2 and 4 pages at PageSize 2; <<2>> is an exact multiple of the page
\* size, <<1, 1>> needs 2 pages although its sum fits one, and <<3, 3>>
\* exceeds TotalPages
PieceSizeLists == {<<2>>, <<3>>, <<1, 1>>, <<3, 3>>}

\* the free marker of the page table (memory.c:27)
FREE == -1
\* the "not started" marker of start_time (main.c:46)
NOT_STARTED == -1

VARIABLES
  processes,            \* Process[]: the parsed workload, with start_time
  memory,               \* Memory: total_memory, page_size, total_pages, page_table
  queue,                \* InputQueue: sequence of Process copies, front first
  clock,                \* main.c:57
  total_turnaround,     \* main.c:58
  completed_processes,  \* main.c:59
  pc,                   \* position of main() in its loop
  report,               \* what main() prints after the loop, and its exit status
  trace,                \* the event lines printed so far: arrives / completes / moves
  hist,                 \* the last two allocator calls, with the tables before and after
  last_map              \* the lines of the memory map printed last, << >> before the first

vars == <<processes, memory, queue, clock, total_turnaround,
          completed_processes, pc, report, trace, hist, last_map>>

Frames(m) == 0 .. (m.total_pages - 1)

(***************************************************************************)
(* memory.c                                                                *)
(***************************************************************************)
init_memory(total_memory, page_size) ==
  [total_memory |-> total_memory,
   page_size    |-> page_size,
   total_pages  |-> total_memory \div page_size,
   page_table   |-> [i \in 0 .. ((total_memory \div page_size) - 1) |-> FREE]]

\* the division without the round-up
PagesForPiece_floor(size, page_size) == size \div page_size

\* memory.c:68-69 and 88-89: pages of one segment, rounded up
PagesForPiece(size, page_size) == (size + page_size - 1) \div page_size

RECURSIVE SumPages(_, _, _)
\* memory.c:66-71: total_pages_needed over pieces i..num_pieces
SumPages(piece_sizes, i, page_size) ==
  IF i > Len(piece_sizes) THEN 0
  ELSE PagesForPiece(piece_sizes[i], page_size)
       + SumPages(piece_sizes, i + 1, page_size)

TotalPagesNeeded(m, num_pieces, piece_sizes) ==
  SumPages(SubSeq(piece_sizes, 1, num_pieces), 1, m.page_size)

\* memory.c:74-79
FreePages(m) == Cardinality({i \in Frames(m) : m.page_table[i] = FREE})

RECURSIVE ClaimScan(_, _, _, _, _, _)
\* memory.c:92-98: the first-fit scan of one segment, from frame j
ClaimScan(pt, total_pages, process_id, j, pages_allocated, pages_needed) ==
  IF j < total_pages /\ pages_allocated < pages_needed
  THEN IF pt[j] = FREE
       THEN ClaimScan([pt EXCEPT ![j] = process_id], total_pages, process_id,
                      j + 1, pages_allocated + 1, pages_needed)
       ELSE ClaimScan(pt, total_pages, process_id, j + 1, pages_allocated,
                      pages_needed)
  ELSE [page_table |-> pt, pages_allocated |-> pages_allocated]

\* a scan in descending index order: it claims the highest free frames
FirstFit_highest(pt, total_pages, process_id, pages_needed) ==
  LET free == {j \in 0 .. (total_pages - 1) : pt[j] = FREE}
      top  == {j \in free : Cardinality({h \in free : h > j}) < pages_needed}
  IN [page_table |-> [j \in DOMAIN pt |-> IF j \in top THEN process_id
                                          ELSE pt[j]],
      pages_allocated |-> Cardinality(top)]

\* a scan that starts at frame 1 and so never looks at frame 0
FirstFit_from1(pt, total_pages, process_id, pages_needed) ==
  ClaimScan(pt, total_pages, process_id, 1, 0, pages_needed)

\* memory.c:90-98: pages_allocated = 0 and the scan from frame 0
FirstFit(pt, total_pages, process_id, pages_needed) ==
  ClaimScan(pt, total_pages, process_id, 0, 0, pages_needed)

\* memory.c:103-107 and 135-140: free every frame tagged process_id
FreeFramesOf(pt, process_id) ==
  [k \in DOMAIN pt |-> IF pt[k] = process_id THEN FREE ELSE pt[k]]

RECURSIVE AllocPieces(_, _, _, _, _)
\* memory.c:87-112: the segment loop, from piece i
AllocPieces(m, process_id, num_pieces, piece_sizes, i) ==
  IF i > num_pieces THEN [ret |-> 1, memory |-> m]
  ELSE LET pages_needed == PagesForPiece(piece_sizes[i], m.page_size)
           scan == FirstFit(m.page_table, m.total_pages, process_id,
                            pages_needed)
       IN IF scan.pages_allocated < pages_needed
          THEN [ret |-> 0,
                memory |-> [m EXCEPT !.page_table =
                                        FreeFramesOf(scan.page_table, process_id)]]
          ELSE AllocPieces([m EXCEPT !.page_table = scan.page_table],
                           process_id, num_pieces, piece_sizes, i + 1)

\* the partial-fit variant: when the free frames do not suffice it still
\* claims what first-fit finds (every free frame) before returning 0
allocate_memory_partial(m, process_id, num_pieces, piece_sizes) ==
  IF FreePages(m) < TotalPagesNeeded(m, num_pieces, piece_sizes)
  THEN [ret |-> 0,
        memory |-> [m EXCEPT !.page_table =
                      [k \in DOMAIN m.page_table |->
                         IF m.page_table[k] = FREE THEN process_id
                         ELSE m.page_table[k]]]]
  ELSE AllocPieces(m, process_id, num_pieces, piece_sizes, 1)

\* memory.c:64-113
allocate_memory(m, process_id, num_pieces, piece_sizes) ==
  IF FreePages(m) < TotalPagesNeeded(m, num_pieces, piece_sizes)
  THEN [ret |-> 0, memory |-> m]
  ELSE AllocPieces(m, process_id, num_pieces, piece_sizes, 1)

\* a release whose scan stops at the first frame it frees
deallocate_memory_first(m, process_id) ==
  LET own == {k \in Frames(m) : m.page_table[k] = process_id}
  IN [m EXCEPT !.page_table =
        [k \in DOMAIN m.page_table |->
           IF k \in own /\ (\A o \in own : k <= o) THEN FREE
           ELSE m.page_table[k]]]

\* a release that runs one frame too far: it also frees the frame after
\* each frame it owns
deallocate_memory_over(m, process_id) ==
  LET own == {k \in Frames(m) : m.page_table[k] = process_id}
  IN [m EXCEPT !.page_table =
        [k \in DOMAIN m.page_table |->
           IF k \in own \/ (k - 1) \in own THEN FREE ELSE m.page_table[k]]]

\* memory.c:133-141
deallocate_memory(m, process_id) ==
  [m EXCEPT !.page_table = FreeFramesOf(m.page_table, process_id)]

\* memory.c:179-180 and 195-196: a "Free frame(s)" line
FreeSpan(start, end) ==
  [kind |-> "free", start |-> start, end |-> end, process_id |-> FREE,
   page_index |-> 0]

\* memory.c:188-189: a "Process p, Page n" line
OwnedSpan(start, end, process_id, page_index) ==
  [kind |-> "owned", start |-> start, end |-> end,
   process_id |-> process_id, page_index |-> page_index]

\* memory.c:164-165: page_number[1000] = {0}, a local of print_memory_map,
\* zeroed at every call; only the slots of the ids in the table are kept
\* (the ids of the workload are below 1000)
PageNumberInit(m) ==
  [id \in {m.page_table[f] : f \in Frames(m)} \ {FREE} |-> 0]

\* the page number printed before the counter is incremented
PrintedPage_before(page_number, process_id) == page_number[process_id]

\* memory.c:186-189: the counter is incremented, then printed
PrintedPage(page_number, process_id) == page_number[process_id] + 1

\* the free range open at the end of the table is not printed
TrailingFree_none(out, start, m, page_size) == out

\* memory.c:193-197: the free range that reaches the end of the table
TrailingFree(out, start, m, page_size) ==
  IF start # -1
  THEN Append(out, FreeSpan(start, m.total_pages * page_size - 1))
  ELSE out

RECURSIVE PrintLoop(_, _, _, _, _, _)
\* memory.c:168-191: the loop over the frames, from frame i; start is the
\* start address of the free range being tracked, -1 when there is none
PrintLoop(m, page_size, i, start, page_number, out) ==
  IF i >= m.total_pages THEN TrailingFree(out, start, m, page_size)
  ELSE LET start_address == i * page_size
           end_address == (i + 1) * page_size - 1
       IN IF m.page_table[i] = FREE
          THEN PrintLoop(m, page_size, i + 1,
                         IF start = -1 THEN start_address ELSE start,
                         page_number, out)
          ELSE LET out2 == IF start # -1
                           THEN Append(out, FreeSpan(start, start_address - 1))
                           ELSE out
                   process_id == m.page_table[i]
               IN PrintLoop(m, page_size, i + 1, -1,
                            [page_number EXCEPT ![process_id] = @ + 1],
                            Append(out2,
                                   OwnedSpan(start_address, end_address,
                                             process_id,
                                             PrintedPage(page_number,
                                                         process_id))))

\* memory.c:160-198: the lines of the memory map, in output order
print_memory_map(m, page_size) ==
  PrintLoop(m, page_size, 0, -1, PageNumberInit(m), << >>)

(***************************************************************************)
(* scheduler.c                                                             *)
(***************************************************************************)
init_queue == << >>

\* an enqueue that links the new node in at the front
enqueue_front(q, process) == <<process>> \o q

\* scheduler.c:40-56
enqueue(q, process) == Append(q, process)

\* scheduler.c:77-93: on an empty queue it prints an error and calls
\* exit(EXIT_FAILURE); otherwise it unlinks the front node
dequeue(q) ==
  IF q = << >> THEN [fatal |-> TRUE, queue |-> q]
  ELSE [fatal |-> FALSE, queue |-> Tail(q)]

\* scheduler.c:109
is_queue_empty(q) == q = << >>

\* the record of one allocator call
CallRecord(op, process_id, piece_sizes, pre, post, ret, t) ==
  [op |-> op, process_id |-> process_id, piece_sizes |-> piece_sizes,
   pre |-> pre, post |-> post, ret |-> ret, t |-> t]

\* hist keeps the last two calls, oldest first
Remember(h, call) ==
  IF Len(h) < 2 THEN Append(h, call) ELSE <<h[2], call>>

(***************************************************************************)
(* main.c: the workload and the state after construction                   *)
(***************************************************************************)
Pids == 1 .. NumProcs

\* The ids of the workload.  The code compares ids for equality only
\* (main.c:112, memory.c:95, 104, 137), so the ids are labels; they are
\* numbered against the table order, which keeps the table order and the id
\* order apart.
IdAssignments == {[i \in 1 .. NumProcs |-> NumProcs + 1 - i]}

\* parser.h:4-12; start_time is set to -1 by main.c:45-48
Process(id, arrival_time, lifetime, piece_sizes) ==
  [id |-> id, arrival_time |-> arrival_time, lifetime |-> lifetime,
   memory_pieces |-> Len(piece_sizes), piece_sizes |-> piece_sizes,
   start_time |-> NOT_STARTED]

\* the workloads parse_input_file may return: unique positive ids,
\* arrival_time >= 0, lifetime > 0, at least one segment, sizes > 0
Workloads ==
  {[i \in 1 .. NumProcs |-> Process(ids[i], arr[i], life[i], segs[i])] :
     ids \in IdAssignments,
     arr \in [1 .. NumProcs -> 0 .. MaxArrival],
     life \in [1 .. NumProcs -> {1, MaxLifetime}],
     segs \in [1 .. NumProcs -> PieceSizeLists]}

NoReport == [kind |-> "none", total |-> 0, count |-> 0, status |-> "running"]

\* main.c:40-59
Init ==
  /\ processes \in Workloads
  /\ memory = init_memory(TotalPages * PageSize, PageSize)
  /\ queue = init_queue
  /\ clock = 0
  /\ total_turnaround = 0
  /\ completed_processes = 0
  /\ pc = "arrive"
  /\ report = NoReport
  /\ trace = << >>
  /\ hist = << >>
  /\ last_map = << >>

Event(kind, id, t) == [kind |-> kind, id |-> id, t |-> t]

\* a different per-tick order: the drain runs before the completions
PhaseOrder_drainFirst == <<"arrive", "admit", "complete", "advance">>

\* main.c:64-138: the order of the three loops of one tick, then clock++
PhaseOrder == <<"arrive", "complete", "admit", "advance">>

NextPhase(p) ==
  PhaseOrder[(CHOOSE k \in 1 .. 3 : PhaseOrder[k] = p) + 1]

RECURSIVE ArriveLoop(_, _, _)
\* main.c:65-77, from table index i: [queue, trace] after the loop
ArriveLoop(i, q, tr) ==
  IF i > NumProcs THEN [queue |-> q, trace |-> tr]
  ELSE IF processes[i].arrival_time = clock
       THEN ArriveLoop(i + 1, enqueue(q, processes[i]),
                       Append(tr, Event("arrives", processes[i].id, clock)))
       ELSE ArriveLoop(i + 1, q, tr)

\* main.c:64-77
Arrivals ==
  /\ pc = "arrive"
  /\ LET r == ArriveLoop(1, queue, trace)
     IN /\ queue' = r.queue
        /\ trace' = r.trace
  /\ pc' = NextPhase("arrive")
  /\ UNCHANGED <<processes, memory, clock, total_turnaround,
                 completed_processes, report, hist, last_map>>

\* the variant that counts the lifetime from the arrival
CompletionTime_fromArrival(process) == process.arrival_time + process.lifetime

\* main.c:85
CompletionTime(process) == process.start_time + process.lifetime

RECURSIVE CompleteLoop(_, _)
\* main.c:80-101, from table index i; st carries what the loop updates
CompleteLoop(i, st) ==
  IF i > NumProcs THEN st
  ELSE LET process == processes[i]
       IN IF process.start_time # NOT_STARTED
             /\ CompletionTime(process) = clock
          THEN LET m2 == deallocate_memory(st.memory, process.id)
               IN CompleteLoop(i + 1,
                    [memory |-> m2,
                     total_turnaround |->
                       st.total_turnaround + (clock - process.arrival_time),
                     completed_processes |-> st.completed_processes + 1,
                     trace |-> Append(st.trace,
                                      Event("completes", process.id, clock)),
                     hist |-> Remember(st.hist,
                                CallRecord("deallocate", process.id, << >>,
                                           st.memory.page_table,
                                           m2.page_table, 1, clock)),
                     last_map |-> print_memory_map(m2, m2.page_size)])
          ELSE CompleteLoop(i + 1, st)

\* main.c:79-101
Completions ==
  /\ pc = "complete"
  /\ LET r == CompleteLoop(1, [memory |-> memory,
                               total_turnaround |-> total_turnaround,
                               completed_processes |-> completed_processes,
                               trace |-> trace, hist |-> hist,
                               last_map |-> last_map])
     IN /\ memory' = r.memory
        /\ total_turnaround' = r.total_turnaround
        /\ completed_processes' = r.completed_processes
        /\ trace' = r.trace
        /\ hist' = r.hist
        /\ last_map' = r.last_map
  /\ pc' = NextPhase("complete")
  /\ UNCHANGED <<processes, queue, clock, report>>

\* the start time written to the local copy next_process only
MarkStart_copy(procs, id, t) == procs

\* main.c:111-116: start_time of the first table entry with this id
MarkStart(procs, id, t) ==
  IF \E p \in 1 .. NumProcs : procs[p].id = id
  THEN LET first == CHOOSE p \in 1 .. NumProcs :
                      /\ procs[p].id = id
                      /\ \A q \in 1 .. (p - 1) : procs[q].id # id
       IN [procs EXCEPT ![first].start_time = t]
  ELSE procs

\* the allocator call of main.c:108-109 on the front of the queue
Attempt ==
  LET next_process == Head(queue)
  IN allocate_memory(memory, next_process.id, next_process.memory_pieces,
                     next_process.piece_sizes)

AttemptRecord(r) ==
  CallRecord("allocate", Head(queue).id, Head(queue).piece_sizes,
             memory.page_table, r.memory.page_table, r.ret, clock)

\* main.c:122-129, after dequeue returned d: on the fatal exit nothing more
\* is printed and the program ends with EXIT_FAILURE
AfterDequeue(d, next_process, m) ==
  /\ queue' = d.queue
  /\ pc' = IF d.fatal THEN "exit_failure" ELSE pc
  /\ trace' = IF d.fatal THEN trace
              ELSE Append(trace, Event("moves", next_process.id, clock))
  /\ last_map' = IF d.fatal THEN last_map
                 ELSE print_memory_map(m, m.page_size)

\* an iteration that dequeues once at the peek and once more after the
\* admission
AdmitOk_dequeueTwice ==
  /\ pc = "admit"
  /\ ~is_queue_empty(queue)
  /\ Attempt.ret = 1
  /\ memory' = Attempt.memory
  /\ processes' = MarkStart(processes, Head(queue).id, clock)
  /\ AfterDequeue(dequeue(dequeue(queue).queue), Head(queue), Attempt.memory)
  /\ hist' = Remember(hist, AttemptRecord(Attempt))
  /\ UNCHANGED <<clock, total_turnaround, completed_processes, report>>

\* an iteration that admits the front of the queue and leaves it queued
AdmitOk_noDequeue ==
  /\ pc = "admit"
  /\ ~is_queue_empty(queue)
  /\ Attempt.ret = 1
  /\ memory' = Attempt.memory
  /\ processes' = MarkStart(processes, Head(queue).id, clock)
  /\ AfterDequeue([fatal |-> FALSE, queue |-> queue], Head(queue),
                  Attempt.memory)
  /\ hist' = Remember(hist, AttemptRecord(Attempt))
  /\ UNCHANGED <<clock, total_turnaround, completed_processes, report>>

\* main.c:104-130: one iteration of the drain whose allocation succeeds
AdmitOk ==
  /\ pc = "admit"
  /\ ~is_queue_empty(queue)
  /\ Attempt.ret = 1
  /\ memory' = Attempt.memory
  /\ processes' = MarkStart(processes, Head(queue).id, clock)
  /\ AfterDequeue(dequeue(queue), Head(queue), Attempt.memory)
  /\ hist' = Remember(hist, AttemptRecord(Attempt))
  /\ UNCHANGED <<clock, total_turnaround, completed_processes, report>>

\* a drain that gives up on a blocked head: it drops it and goes on
AdmitFail_drop ==
  /\ pc = "admit"
  /\ ~is_queue_empty(queue)
  /\ Attempt.ret = 0
  /\ memory' = Attempt.memory
  /\ queue' = dequeue(queue).queue
  /\ hist' = Remember(hist, AttemptRecord(Attempt))
  /\ UNCHANGED <<processes, clock, total_turnaround, completed_processes, pc,
                 report, trace, last_map>>

\* a drain that moves a blocked head behind the others and goes on,
\* until every queued process was tried once in this tick
AdmitFail_skip ==
  /\ pc = "admit"
  /\ ~is_queue_empty(queue)
  /\ Attempt.ret = 0
  /\ memory' = Attempt.memory
  /\ queue' = Append(Tail(queue), Head(queue))
  /\ hist' = Remember(hist, AttemptRecord(Attempt))
  /\ pc' = IF \E k \in 1 .. Len(queue) :
                /\ k > 1
                /\ FreePages(memory) >=
                     TotalPagesNeeded(memory, queue[k].memory_pieces,
                                      queue[k].piece_sizes)
           THEN "admit" ELSE NextPhase("admit")
  /\ UNCHANGED <<processes, clock, total_turnaround, completed_processes,
                 report, trace, last_map>>

\* main.c:104-109 and 131-134: the allocation fails and the drain stops
AdmitFail ==
  /\ pc = "admit"
  /\ ~is_queue_empty(queue)
  /\ Attempt.ret = 0
  /\ memory' = Attempt.memory
  /\ hist' = Remember(hist, AttemptRecord(Attempt))
  /\ pc' = NextPhase("admit")
  /\ UNCHANGED <<processes, queue, clock, total_turnaround,
                 completed_processes, report, trace, last_map>>

\* main.c:104: the queue is empty and the drain ends
DrainEmpty ==
  /\ pc = "admit"
  /\ is_queue_empty(queue)
  /\ pc' = NextPhase("admit")
  /\ UNCHANGED <<processes, memory, queue, clock, total_turnaround,
                 completed_processes, report, trace, hist, last_map>>

\* main.c:138 and the loop test of main.c:61
Advance ==
  /\ pc = "advance"
  /\ clock' = clock + 1
  /\ pc' = IF clock + 1 <= MAX_TICK THEN "arrive" ELSE "report"
  /\ UNCHANGED <<processes, memory, queue, total_turnaround,
                 completed_processes, report, trace, hist, last_map>>

\* a report that averages over every process of the workload
Report_overAll ==
  /\ pc = "report"
  /\ report' = [kind |-> "average", total |-> total_turnaround,
                count |-> NumProcs, status |-> "EXIT_SUCCESS"]
  /\ pc' = "done"
  /\ UNCHANGED <<processes, memory, queue, clock, total_turnaround,
                 completed_processes, trace, hist, last_map>>

\* main.c:141-153: the final report; main returns EXIT_SUCCESS either way.
\* For kind "average" the printed value is total / count.
Report ==
  /\ pc = "report"
  /\ report' = IF completed_processes > 0
               THEN [kind |-> "average", total |-> total_turnaround,
                     count |-> completed_processes,
                     status |-> "EXIT_SUCCESS"]
               ELSE [kind |-> "no_completions", total |-> 0, count |-> 0,
                     status |-> "EXIT_SUCCESS"]
  /\ pc' = "done"
  /\ UNCHANGED <<processes, memory, queue, clock, total_turnaround,
                 completed_processes, trace, hist, last_map>>

Next ==
  \/ Arrivals
  \/ Completions
  \/ AdmitOk
  \/ AdmitFail
  \/ DrainEmpty
  \/ Advance
  \/ Report

Spec == Init /\ [][Next]_vars

\* main() is one sequential thread: as long as a statement of the loop or
\* the report is left to run, it runs
SpecLive == Spec /\ WF_vars(Next)

(***************************************************************************)
(* The allocator API on its own: any process id and any segment list, in   *)
(* any order, from the table init_memory builds.  The memory map is        *)
(* printed where main() prints it: after every release and after every     *)
(* successful admission.                                                   *)
(***************************************************************************)
InitAlloc ==
  /\ processes = << >>
  /\ memory = init_memory(TotalPages * PageSize, PageSize)
  /\ queue = init_queue
  /\ clock = 0
  /\ total_turnaround = 0
  /\ completed_processes = 0
  /\ pc = "api"
  /\ report = NoReport
  /\ trace = << >>
  /\ hist = << >>
  /\ last_map = << >>

CallAllocate(process_id, piece_sizes) ==
  /\ pc = "api"
  /\ LET r == allocate_memory(memory, process_id, Len(piece_sizes), piece_sizes)
     IN /\ memory' = r.memory
        /\ hist' = Remember(hist,
                     CallRecord("allocate", process_id, piece_sizes,
                                memory.page_table, r.memory.page_table,
                                r.ret, clock))
        /\ last_map' = IF r.ret = 1
                       THEN print_memory_map(r.memory, r.memory.page_size)
                       ELSE last_map
  /\ UNCHANGED <<processes, queue, clock, total_turnaround,
                 completed_processes, pc, report, trace>>

CallDeallocate(process_id) ==
  /\ pc = "api"
  /\ LET m2 == deallocate_memory(memory, process_id)
     IN /\ memory' = m2
        /\ hist' = Remember(hist,
                     CallRecord("deallocate", process_id, << >>,
                                memory.page_table, m2.page_table, 1, clock))
        /\ last_map' = print_memory_map(m2, m2.page_size)
  /\ UNCHANGED <<processes, queue, clock, total_turnaround,
                 completed_processes, pc, report, trace>>

NextAlloc ==
  \/ \E process_id \in Pids, piece_sizes \in PieceSizeLists :
       CallAllocate(process_id, piece_sizes)
  \/ \E process_id \in Pids : CallDeallocate(process_id)

SpecAlloc == InitAlloc /\ [][NextAlloc]_vars

(***************************************************************************)
(* Vocabulary of the properties                                            *)
(***************************************************************************)
Procs == 1 .. NumProcs

Owned(pt, id) == {f \in DOMAIN pt : pt[f] = id}

LastCall == hist[Len(hist)]

\* the smallest k with k * b >= a, for a >= 0 and b > 0
CeilDiv(a, b) == CHOOSE k \in 0 .. a : k * b >= a /\ \A l \in 0 .. (k - 1) : l * b < a

RECURSIVE CeilSum(_, _)
\* the sum over the segments of ceil(size / page_size)
CeilSum(sizes, page_size) ==
  IF sizes = << >> THEN 0
  ELSE CeilDiv(Head(sizes), page_size) + CeilSum(Tail(sizes), page_size)

Required(i) == CeilSum(processes[i].piece_sizes, memory.page_size)

Events(kind, id) == {k \in DOMAIN trace : trace[k].kind = kind /\ trace[k].id = id}

HasArrived(i) == Events("arrives", processes[i].id) # {}
HasMoved(i) == Events("moves", processes[i].id) # {}
HasCompleted(i) == Events("completes", processes[i].id) # {}

InQueue(i) == \E k \in DOMAIN queue : queue[k].id = processes[i].id

Admitted(i) == processes[i].start_time # NOT_STARTED

\* admitted and not yet completed
IsRunning(i) == Admitted(i) /\ ~HasCompleted(i)

\* i was enqueued before j
EnqueuedBefore(i, j) ==
  \E a \in Events("arrives", processes[i].id) :
    \E b \in Events("arrives", processes[j].id) : a < b

RECURSIVE SumRequired(_)
\* the frames the processes of S need together
SumRequired(S) ==
  IF S = {} THEN 0
  ELSE LET x == CHOOSE y \in S : TRUE IN Required(x) + SumRequired(S \ {x})

(***************************************************************************)
(* C1  Atomicity of admission: when allocate_memory returns 0 the page     *)
(* table after the call is, frame for frame, the table before the call.    *)
(* Checked under SpecAlloc: any table the API can build, any process id    *)
(* (also one that already owns frames), any segment list.                  *)
(***************************************************************************)
C1_AdmitAtomic ==
  (hist # << >> /\ LastCall.op = "allocate" /\ LastCall.ret = 0)
    => /\ LastCall.post = LastCall.pre
       /\ memory.page_table = LastCall.pre

\* a failed admission on a table that has free frames left to claim and in
\* which the process already owns a frame
C1_Witness ==
  /\ hist # << >>
  /\ LastCall.op = "allocate"
  /\ LastCall.ret = 0
  /\ Owned(LastCall.pre, FREE) # {}
  /\ Owned(LastCall.pre, LastCall.process_id) # {}
  /\ memory.page_table = LastCall.pre

(***************************************************************************)
(* C2  Frame ownership at the end of every tick: a running process owns    *)
(* exactly the per-segment ceiling sum of frames, a process that is not    *)
(* running owns none, every owned frame belongs to a running process, and  *)
(* the frames the running processes need fit in total_pages.               *)
(***************************************************************************)
C2_FrameOwnership ==
  pc = "advance" =>
    /\ \A i \in Procs :
         Cardinality(Owned(memory.page_table, processes[i].id)) =
           IF IsRunning(i) THEN Required(i) ELSE 0
    /\ \A f \in Frames(memory) :
         memory.page_table[f] # FREE =>
           \E i \in Procs :
             IsRunning(i) /\ processes[i].id = memory.page_table[f]
    /\ SumRequired({i \in Procs : IsRunning(i)}) <= memory.total_pages
    /\ SumRequired({i \in Procs : IsRunning(i)})
         = memory.total_pages - FreePages(memory)

\* two processes run together and one of them has two segments whose sizes
\* sum to no more than one page
C2_Witness ==
  /\ pc = "advance"
  /\ \E i, j \in Procs :
       /\ i # j
       /\ IsRunning(i) /\ IsRunning(j)
       /\ Len(processes[i].piece_sizes) = 2
       /\ processes[i].piece_sizes[1] + processes[i].piece_sizes[2]
            <= memory.page_size
       /\ Cardinality(Owned(memory.page_table, processes[i].id)) = 2

(***************************************************************************)
(* C3  FCFS head-of-line blocking: while A is queued no process enqueued   *)
(* after A is admitted; when the attempt for A fails the drain of that     *)
(* tick stops with A at the front.                                         *)
(***************************************************************************)
C3_HeadOfLineBlocking ==
  /\ \A i, j \in Procs :
       (InQueue(i) /\ EnqueuedBefore(i, j)) =>
         (~Admitted(j) /\ ~HasMoved(j)
          /\ Owned(memory.page_table, processes[j].id) = {})
  /\ (hist # << >> /\ LastCall.op = "allocate" /\ LastCall.ret = 0
      /\ LastCall.t = clock)
       => /\ pc = "advance"
          /\ queue # << >>
          /\ Head(queue).id = LastCall.process_id
          /\ \A k \in DOMAIN trace :
               (trace[k].kind = "moves" /\ trace[k].t = clock) =>
                 \E a \in Events("arrives", trace[k].id) :
                   \A b \in Events("arrives", LastCall.process_id) : a < b

\* the tick ends with A blocked at the front and B behind it, although B
\* would fit in the free frames
C3_Witness ==
  /\ pc = "advance"
  /\ Len(queue) >= 2
  /\ FreePages(memory) <
       TotalPagesNeeded(memory, queue[1].memory_pieces, queue[1].piece_sizes)
  /\ FreePages(memory) >=
       TotalPagesNeeded(memory, queue[2].memory_pieces, queue[2].piece_sizes)
  /\ LastCall.op = "allocate" /\ LastCall.ret = 0 /\ LastCall.t = clock

(***************************************************************************)
(* C4  Per-tick ordering: in every tick the arrivals are enqueued first,   *)
(* then the completions release their frames, then the drain runs.  So     *)
(* when the drain runs every arrival of the tick is in the queue and every *)
(* completion of the tick has freed its frames, and the tick ends with a   *)
(* queued head only if that head does not fit in the frames free after the *)
(* tick's completions.                                                     *)
(***************************************************************************)
Rank(kind) ==
  CASE kind = "arrives" -> 1
    [] kind = "completes" -> 2
    [] kind = "moves" -> 3

C4_PerTickOrder ==
  /\ \A a, b \in DOMAIN trace :
       a < b =>
         \/ trace[a].t < trace[b].t
         \/ /\ trace[a].t = trace[b].t
            /\ Rank(trace[a].kind) <= Rank(trace[b].kind)
  /\ pc \in {"admit", "advance"} =>
       \A i \in Procs :
         /\ processes[i].arrival_time = clock =>
              (HasArrived(i) /\ (InQueue(i) \/ Admitted(i)))
         /\ (Admitted(i)
             /\ processes[i].start_time + processes[i].lifetime = clock) =>
              (HasCompleted(i)
               /\ Owned(memory.page_table, processes[i].id) = {})
  /\ (pc = "advance" /\ queue # << >>) =>
       FreePages(memory) < CeilSum(Head(queue).piece_sizes, memory.page_size)

\* A arrives and is admitted in one tick; B, which does not fit beside A, is
\* admitted in the very tick in which A completes
C4_Witness ==
  \E i, j \in Procs :
    /\ i # j
    /\ Required(i) + Required(j) > memory.total_pages
    /\ processes[i].arrival_time = processes[i].start_time
    /\ HasCompleted(i)
    /\ Admitted(j)
    /\ processes[j].start_time
         = processes[i].start_time + processes[i].lifetime
    /\ processes[j].arrival_time < processes[j].start_time

(***************************************************************************)
(* C5  Completion timing.                                                  *)
(* As claimed: every process admitted at tick s with lifetime L completes  *)
(* (at tick s + L).                                                        *)
(***************************************************************************)
C5_EveryAdmittedCompletes ==
  pc = "done" => \A i \in Procs : Admitted(i) => HasCompleted(i)

\* tick s + L of process i has run its completion loop
PastCompletion(i) ==
  \/ clock > processes[i].start_time + processes[i].lifetime
  \/ /\ clock = processes[i].start_time + processes[i].lifetime
     /\ pc \in {"admit", "advance"}

RECURSIVE SumTurnaround(_)
\* the sum over the "completes" events at the trace positions K of
\* (tick of the event - arrival tick of its process)
SumTurnaround(K) ==
  IF K = {} THEN 0
  ELSE LET k == CHOOSE x \in K : TRUE
           i == CHOOSE x \in Procs : processes[x].id = trace[k].id
       IN (trace[k].t - processes[i].arrival_time) + SumTurnaround(K \ {k})

CompletesEvents == {k \in DOMAIN trace : trace[k].kind = "completes"}

(***************************************************************************)
(* C5, amended: a process admitted at tick s with lifetime L completes     *)
(* exactly at tick s + L when the loop runs that tick (s + L <= MAX_TICK), *)
(* counted from the admission and not from the arrival; from then on it    *)
(* owns no frame, it is counted once in completed_processes and            *)
(* (s + L) - arrival_time once in total_turnaround.  A process with        *)
(* s + L > MAX_TICK never completes.                                       *)
(***************************************************************************)
C5_CompletionTiming ==
  /\ \A i \in Procs :
       Admitted(i) =>
         /\ HasCompleted(i) <=> PastCompletion(i)
         /\ \A k \in Events("completes", processes[i].id) :
              trace[k].t = processes[i].start_time + processes[i].lifetime
         /\ Cardinality(Events("completes", processes[i].id)) <= 1
         /\ HasCompleted(i) =>
              Owned(memory.page_table, processes[i].id) = {}
  /\ \A i \in Procs : HasCompleted(i) => Admitted(i)
  /\ completed_processes = Cardinality(CompletesEvents)
  /\ total_turnaround = SumTurnaround(CompletesEvents)

\* a process that waited in the queue has completed: its turnaround is
\* longer than its lifetime
C5_Witness ==
  \E i \in Procs :
    /\ HasCompleted(i)
    /\ processes[i].start_time > processes[i].arrival_time
    /\ Required(i) >= 2
    /\ total_turnaround >=
         processes[i].start_time + processes[i].lifetime
           - processes[i].arrival_time
    /\ total_turnaround > processes[i].lifetime

(***************************************************************************)
(* C6  Non-termination is reported: when the loop ends at the tick bound   *)
(* with a process that has not completed, the run ends with a "simulation  *)
(* did not terminate" report, not with the report and exit status of a     *)
(* run in which every process completed.                                   *)
(***************************************************************************)
C6_NonTerminationReported ==
  (pc = "done" /\ completed_processes < NumProcs) =>
    report.kind = "did_not_terminate"

(***************************************************************************)
(* C7  Process state exclusivity: at the end of every tick each process is *)
(* in exactly one of not-yet-arrived, queued, running, completed, and      *)
(* completed_processes counts the completed ones.                          *)
(***************************************************************************)
StNotArrived(i) == processes[i].arrival_time > clock /\ ~HasArrived(i)

StQueued(i) == InQueue(i) /\ processes[i].start_time = NOT_STARTED

StRunning(i) ==
  /\ processes[i].start_time # NOT_STARTED
  /\ clock < processes[i].start_time + processes[i].lifetime
  /\ Owned(memory.page_table, processes[i].id) # {}

StCompleted(i) ==
  /\ HasCompleted(i)
  /\ Owned(memory.page_table, processes[i].id) = {}

StatesOf(i) ==
  {st \in {"not_arrived", "queued", "running", "completed"} :
     \/ st = "not_arrived" /\ StNotArrived(i)
     \/ st = "queued" /\ StQueued(i)
     \/ st = "running" /\ StRunning(i)
     \/ st = "completed" /\ StCompleted(i)}

C7_StateExclusivity ==
  pc = "advance" =>
    /\ \A i \in Procs : Cardinality(StatesOf(i)) = 1
    /\ completed_processes =
         Cardinality({i \in Procs : StatesOf(i) = {"completed"}})

\* a tick ends with one process queued while another, admitted in an
\* earlier tick, is running
C7_Witness ==
  /\ pc = "advance"
  /\ \E i, j \in Procs :
       /\ StatesOf(i) = {"queued"}
       /\ StatesOf(j) = {"running"}
       /\ clock > processes[j].start_time

(***************************************************************************)
(* C8  Round trip: a successful allocate_memory for a process that owns no *)
(* frame, followed by deallocate_memory of the same id, gives back the     *)
(* table from before the allocation, frame for frame.                      *)
(***************************************************************************)
IsRoundTrip ==
  /\ Len(hist) = 2
  /\ hist[1].op = "allocate"
  /\ hist[1].ret = 1
  /\ Owned(hist[1].pre, hist[1].process_id) = {}
  /\ hist[2].op = "deallocate"
  /\ hist[2].process_id = hist[1].process_id
  /\ hist[2].pre = hist[1].post

C8_RoundTrip ==
  IsRoundTrip => (hist[2].post = hist[1].pre /\ memory.page_table = hist[1].pre)

\* the round trip of a process that took two frames on either side of a
\* frame owned by another process
C8_Witness ==
  /\ IsRoundTrip
  /\ Cardinality(Owned(hist[1].post, hist[1].process_id)) >= 2
  /\ \E f \in DOMAIN hist[1].pre :
       /\ hist[1].pre[f] # FREE
       /\ \E e, g \in Owned(hist[1].post, hist[1].process_id) : e < f /\ f < g
  /\ memory.page_table = hist[1].pre

(***************************************************************************)
(* C9  Frame stability and no overlap: from one step to the next the       *)
(* frames of a process that owns frames stay the same, unless that very    *)
(* process completes in the step and then loses them all; a frame that     *)
(* has an owner is never handed to another process, and it is freed only   *)
(* when its own owner completes; an admission takes free frames only.      *)
(***************************************************************************)
CompletesInStep(id) ==
  \E k \in DOMAIN trace' :
    /\ k > Len(trace)
    /\ trace'[k].kind = "completes"
    /\ trace'[k].id = id

C9_FrameStability ==
  [][ /\ \A i \in Procs :
           LET id == processes[i].id
           IN Owned(memory.page_table, id) # {} =>
                \/ Owned(memory'.page_table, id) = Owned(memory.page_table, id)
                \/ /\ CompletesInStep(id)
                   /\ Owned(memory'.page_table, id) = {}
      /\ \A f \in Frames(memory) :
           (memory.page_table[f] # FREE
            /\ memory'.page_table[f] # memory.page_table[f]) =>
             (memory'.page_table[f] = FREE
              /\ CompletesInStep(memory.page_table[f]))
      /\ \A i \in Procs :
           (~Admitted(i) /\ processes'[i].start_time # NOT_STARTED) =>
             /\ Owned(memory'.page_table, processes[i].id)
                  \subseteq Owned(memory.page_table, FREE)
             /\ Owned(memory.page_table, processes[i].id) = {}
    ]_vars

\* j was admitted while k was running, k has completed since, and j still
\* owns the frames it was given
C9_Witness ==
  \E j, k \in Procs :
    /\ j # k
    /\ IsRunning(j)
    /\ Cardinality(Owned(memory.page_table, processes[j].id)) = Required(j)
    /\ HasCompleted(k)
    /\ processes[k].start_time < processes[j].start_time
    /\ processes[j].start_time
         < processes[k].start_time + processes[k].lifetime

(***************************************************************************)
(* C10  Capacity failure is retried every tick: a failed attempt leaves    *)
(* the process at the front of the queue and the run goes on; every tick   *)
(* that ends with a non-empty queue has attempted its head in that tick,   *)
(* after the tick's completions, and the attempt failed because the free   *)
(* frames were fewer than the pages the head needs.  So the head is        *)
(* admitted in the first tick in which it fits.                            *)
(***************************************************************************)
C10_RetryEveryTick ==
  /\ (pc = "advance" /\ queue # << >>) =>
       /\ hist # << >>
       /\ LastCall.op = "allocate"
       /\ LastCall.t = clock
       /\ LastCall.ret = 0
       /\ LastCall.process_id = Head(queue).id
       /\ LastCall.pre = memory.page_table
       /\ FreePages(memory) <
            CeilSum(Head(queue).piece_sizes, memory.page_size)
  /\ (hist # << >> /\ LastCall.op = "allocate" /\ LastCall.ret = 0) =>
       /\ queue # << >>
       /\ Head(queue).id = LastCall.process_id
       /\ LastCall.t = clock => pc = "advance"
  /\ \A k \in DOMAIN queue :
       /\ \E i \in Procs :
            /\ processes[i].id = queue[k].id
            /\ HasArrived(i) /\ ~Admitted(i)
       /\ \A l \in DOMAIN queue :
            k < l =>
              \E a \in Events("arrives", queue[k].id) :
                \E b \in Events("arrives", queue[l].id) : a < b

\* a head that failed in an earlier tick is admitted in the tick in which a
\* completion frees the frames it needs
C10_Witness ==
  /\ Len(hist) = 2
  /\ hist[1].op = "deallocate"
  /\ hist[2].op = "allocate"
  /\ hist[2].ret = 1
  /\ hist[1].t = clock
  /\ hist[2].t = clock
  /\ \E i \in Procs :
       /\ processes[i].id = hist[2].process_id
       /\ processes[i].start_time = clock
       /\ processes[i].arrival_time < clock
       /\ Required(i) > Cardinality(Owned(hist[1].pre, FREE))
       /\ Required(i) <= Cardinality(Owned(hist[1].post, FREE))

(***************************************************************************)
(* C11  Queue order equals arrival order: the queue holds exactly the      *)
(* processes that have arrived and are not admitted, ordered by arrival    *)
(* tick and, within one tick, by position in the process table; processes  *)
(* leave it from the front only, so the admissions happen in the order of  *)
(* the arrivals.                                                           *)
(***************************************************************************)
\* i comes before j in arrival order: earlier tick, or same tick and earlier
\* in the process table
ArrivalOrder(i, j) ==
  \/ processes[i].arrival_time < processes[j].arrival_time
  \/ /\ processes[i].arrival_time = processes[j].arrival_time
     /\ i < j

TableIndex(id) == CHOOSE i \in Procs : processes[i].id = id

\* the ids of the events of one kind, in the order they were printed
RECURSIVE IdsOf(_, _)
IdsOf(kind, tr) ==
  IF tr = << >> THEN << >>
  ELSE IF Head(tr).kind = kind
       THEN <<Head(tr).id>> \o IdsOf(kind, Tail(tr))
       ELSE IdsOf(kind, Tail(tr))

C11_QueueIsArrivalOrder ==
  /\ {queue[k].id : k \in DOMAIN queue} =
       {processes[i].id : i \in {j \in Procs : HasArrived(j) /\ ~Admitted(j)}}
  /\ \A k, l \in DOMAIN queue :
       k < l => ArrivalOrder(TableIndex(queue[k].id), TableIndex(queue[l].id))
  /\ \A i \in Procs :
       (pc # "arrive" /\ processes[i].arrival_time <= clock) => HasArrived(i)
  /\ LET moved == IdsOf("moves", trace)
         arrived == IdsOf("arrives", trace)
     IN /\ Len(moved) <= Len(arrived)
        /\ moved = SubSeq(arrived, 1, Len(moved))
        /\ \A k, l \in DOMAIN arrived :
             k < l => ArrivalOrder(TableIndex(arrived[k]), TableIndex(arrived[l]))

\* two processes of one arrival tick wait in the queue in table order, the
\* one with the larger id in front
C11_Witness ==
  /\ Len(queue) >= 2
  /\ queue[1].arrival_time = queue[2].arrival_time
  /\ TableIndex(queue[1].id) < TableIndex(queue[2].id)
  /\ queue[1].id > queue[2].id
  /\ pc = "advance"

(***************************************************************************)
(* C12  Release is a safe no-op and idempotent: deallocate_memory(pid)     *)
(* frees every frame of pid and changes no other frame; when pid owns no   *)
(* frame, also when it never was given one, the table stays as it is; a    *)
(* second release right after a first changes nothing.                     *)
(***************************************************************************)
C12_ReleaseIdempotent ==
  /\ (hist # << >> /\ LastCall.op = "deallocate") =>
       /\ memory.page_table = LastCall.post
       /\ \A f \in DOMAIN LastCall.pre :
            LastCall.post[f] =
              IF LastCall.pre[f] = LastCall.process_id THEN FREE
              ELSE LastCall.pre[f]
       /\ Owned(LastCall.pre, LastCall.process_id) = {} =>
            LastCall.post = LastCall.pre
       /\ LastCall.ret = 1
  /\ (Len(hist) = 2 /\ hist[1].op = "deallocate" /\ hist[2].op = "deallocate"
      /\ hist[1].process_id = hist[2].process_id) =>
       hist[2].post = hist[1].post

\* a process that owned frames beside another process's frames is released
\* twice in a row
C12_Witness ==
  /\ Len(hist) = 2
  /\ hist[1].op = "deallocate"
  /\ hist[2].op = "deallocate"
  /\ hist[1].process_id = hist[2].process_id
  /\ Owned(hist[1].pre, hist[1].process_id) # {}
  /\ \E f \in DOMAIN hist[1].pre :
       hist[1].pre[f] \notin {FREE, hist[1].process_id}
  /\ memory.page_table = hist[1].post

(***************************************************************************)
(* C13  Final average without division by zero: after the loop the report  *)
(* is total_turnaround / completed count, the total being the sum of       *)
(* (completion tick - arrival tick) over exactly the completed processes,  *)
(* when at least one process completed; with no completion the report is   *)
(* the "no completions" line and nothing is divided.                       *)
(***************************************************************************)
C13_FinalAverage ==
  /\ pc = "done" =>
       IF \E i \in Procs : HasCompleted(i)
       THEN /\ report.kind = "average"
            /\ report.count = Cardinality({i \in Procs : HasCompleted(i)})
            /\ report.count > 0
            /\ report.total = SumTurnaround(CompletesEvents)
       ELSE /\ report.kind = "no_completions"
            /\ report.count = 0
  /\ pc # "done" => report = NoReport

\* the run ends with fewer completions than processes: one process is
\* admitted but not completed, and the average is taken over the others
C13_Witness ==
  /\ pc = "done"
  /\ report.kind = "average"
  /\ report.count < NumProcs
  /\ report.total > report.count
  /\ \E i \in Procs : Admitted(i) /\ ~HasCompleted(i)

(***************************************************************************)
(* C14  Page index of the memory map.                                      *)
(* As claimed: the page index is cumulative per process and is not reset   *)
(* between calls of print_memory_map, so the indices a map shows for a     *)
(* process come after the ones the map before it showed for that process.  *)
(***************************************************************************)
SpansOf(map, id) ==
  {k \in DOMAIN map : map[k].kind = "owned" /\ map[k].process_id = id}

\* the step prints at least one memory map
PrintsInStep ==
  /\ Len(trace') > Len(trace)
  /\ trace'[Len(trace')].kind \in {"completes", "moves"}

C14_PageIndexCumulative ==
  [][ PrintsInStep =>
        \A id \in Pids :
          \A a \in SpansOf(last_map, id) :
            \A b \in SpansOf(last_map', id) :
              last_map'[b].page_index > last_map[a].page_index
    ]_vars

(***************************************************************************)
(* C14, amended: the page index of an owned frame is the 1-based ordinal   *)
(* of that frame among the frames the process owns in the table being      *)
(* printed, in ascending frame order; the counter is local to              *)
(* print_memory_map and starts from zero at every call, so every map       *)
(* numbers the frames of a process 1, 2, ..., k.                           *)
(***************************************************************************)
C14_PageIndexPerCall ==
  /\ \A k \in DOMAIN last_map :
       last_map[k].kind = "owned" =>
         last_map[k].page_index =
           Cardinality({j \in SpansOf(last_map, last_map[k].process_id) :
                          j <= k})
  /\ \A id \in Pids :
       {last_map[k].page_index : k \in SpansOf(last_map, id)}
         = 1 .. Cardinality(SpansOf(last_map, id))
  /\ last_map # << >> =>
       \A id \in Pids :
         Cardinality(SpansOf(last_map, id))
           = Cardinality(Owned(memory.page_table, id))

\* a process with two frames is shown in a map printed after the map of its
\* own admission: its pages are numbered 1 and 2 again
C14_Witness ==
  \E i \in Procs :
    /\ Cardinality(SpansOf(last_map, processes[i].id)) = 2
    /\ \E k \in DOMAIN trace :
         /\ trace[k].kind = "moves"
         /\ trace[k].id = processes[i].id
         /\ k < Len(trace)
         /\ trace[Len(trace)].kind \in {"completes", "moves"}

(***************************************************************************)
(* C15  Span structure of the memory map.  The spans print_memory_map      *)
(* produces, in output order, are in ascending address order and partition *)
(* 0 .. total_pages*page_size-1 with no gap and no overlap; every owned    *)
(* frame i has a span [i*page_size, (i+1)*page_size-1] of its own with its *)
(* owner's id, and every free span is a maximal run of free frames.        *)
(***************************************************************************)
SpanFrames(sp, page_size) ==
  {f \in 0 .. (TotalPages + 1) :
     f * page_size >= sp.start /\ (f + 1) * page_size - 1 <= sp.end}

C15_SpanStructure ==
  LET n  == Len(last_map)
      ps == memory.page_size
      pt == memory.page_table
  IN last_map # << >> =>
       /\ last_map[1].start = 0
       /\ last_map[n].end = memory.total_pages * ps - 1
       /\ \A k \in 1 .. n : last_map[k].start <= last_map[k].end
       /\ \A k \in 1 .. (n - 1) :
            /\ last_map[k + 1].start = last_map[k].end + 1
            /\ ~(last_map[k].kind = "free" /\ last_map[k + 1].kind = "free")
       /\ \A f \in Frames(memory) :
            pt[f] # FREE =>
              \E k \in 1 .. n :
                last_map[k] = [kind |-> "owned", start |-> f * ps,
                               end |-> (f + 1) * ps - 1,
                               process_id |-> pt[f],
                               page_index |-> last_map[k].page_index]
       /\ \A k \in 1 .. n :
            /\ last_map[k].kind = "owned" =>
                 \E f \in Frames(memory) :
                   /\ last_map[k].start = f * ps
                   /\ last_map[k].end = (f + 1) * ps - 1
                   /\ pt[f] = last_map[k].process_id
            /\ last_map[k].kind = "free" =>
                 /\ last_map[k].start % ps = 0
                 /\ (last_map[k].end + 1) % ps = 0
                 /\ \A f \in SpanFrames(last_map[k], ps) :
                      f \in Frames(memory) /\ pt[f] = FREE

\* a map with two neighbouring frames of one process, printed as two spans,
\* and a free range that reaches the end of the table
C15_Witness ==
  /\ Len(last_map) >= 3
  /\ last_map[Len(last_map)].kind = "free"
  /\ \E k \in 1 .. (Len(last_map) - 1) :
       /\ last_map[k].kind = "owned"
       /\ last_map[k + 1].kind = "owned"
       /\ last_map[k].process_id = last_map[k + 1].process_id

(***************************************************************************)
(* C16  First-fit placement: when allocate_memory returns 1 for a process  *)
(* that needs k pages in total, the frames that changed owner are exactly  *)
(* the k lowest-indexed frames that were free before the call, they now    *)
(* belong to the process, and every other frame keeps its owner.           *)
(***************************************************************************)
LowestFree(pt, k) ==
  {f \in Owned(pt, FREE) :
     Cardinality({h \in Owned(pt, FREE) : h < f}) < k}

C16_FirstFitPlacement ==
  (hist # << >> /\ LastCall.op = "allocate" /\ LastCall.ret = 1) =>
    LET k == CeilSum(LastCall.piece_sizes, memory.page_size)
        lowest == LowestFree(LastCall.pre, k)
    IN /\ Cardinality(lowest) = k
       /\ Owned(LastCall.post, LastCall.process_id)
            \ Owned(LastCall.pre, LastCall.process_id) = lowest
       /\ \A f \in DOMAIN LastCall.pre :
            LastCall.post[f] = IF f \in lowest THEN LastCall.process_id
                               ELSE LastCall.pre[f]
       /\ memory.page_table = LastCall.post

\* a successful admission of two segments into free frames that are not
\* contiguous: a frame of another owner lies between them
C16_Witness ==
  /\ hist # << >>
  /\ LastCall.op = "allocate"
  /\ LastCall.ret = 1
  /\ Len(LastCall.piece_sizes) = 2
  /\ \E f \in Owned(LastCall.pre, FREE) :
       /\ (f - 1) \in DOMAIN LastCall.pre
       /\ LastCall.pre[f - 1] \notin {FREE, LastCall.process_id}
       /\ LastCall.post[f] = LastCall.process_id
       /\ \E g \in Owned(LastCall.pre, FREE) :
            g < f - 1 /\ LastCall.post[g] = LastCall.process_id

(***************************************************************************)
(* C17  The pre-check decides admission: allocate_memory returns 1 if and  *)
(* only if the free frames before the call are at least the total pages    *)
(* needed, and whenever the pre-check passes the segment loop claims every *)
(* page of every segment, so the rollback branch is never taken.           *)
(***************************************************************************)
PreCheckPasses(m, piece_sizes) ==
  Cardinality(Owned(m.page_table, FREE)) >= CeilSum(piece_sizes, m.page_size)

C17_PreCheckDecides ==
  /\ (hist # << >> /\ LastCall.op = "allocate") =>
       (LastCall.ret = 1
          <=> Cardinality(Owned(LastCall.pre, FREE))
                >= CeilSum(LastCall.piece_sizes, memory.page_size))
  /\ pc = "api" =>
       \A process_id \in Pids, piece_sizes \in PieceSizeLists :
         PreCheckPasses(memory, piece_sizes) =>
           AllocPieces(memory, process_id, Len(piece_sizes), piece_sizes, 1).ret
             = 1

\* a call that passes the pre-check with no frame to spare, on a table where
\* the caller and another process already own frames
C17_Witness ==
  /\ hist # << >>
  /\ LastCall.op = "allocate"
  /\ LastCall.ret = 1
  /\ Cardinality(Owned(LastCall.pre, FREE))
       = CeilSum(LastCall.piece_sizes, memory.page_size)
  /\ Len(LastCall.piece_sizes) = 2
  /\ \E f \in DOMAIN LastCall.pre : LastCall.pre[f] # FREE

(***************************************************************************)
(* C18  dequeue is never called on an empty queue: in every run of the     *)
(* clock loop the queue loses a node only in a step whose allocator call   *)
(* returned 1 for the process at the front of the non-empty queue, the     *)
(* node it loses is exactly that front node, and the fatal exit of         *)
(* dequeue is never taken.                                                 *)
(***************************************************************************)
DequeueInStep == Len(queue') < Len(queue) \/ pc' = "exit_failure"

C18_DequeueNeverOnEmpty ==
  /\ [](pc # "exit_failure")
  /\ [][ DequeueInStep =>
           /\ pc = "admit"
           /\ ~is_queue_empty(queue)
           /\ queue = <<Head(queue)>> \o queue'
           /\ hist'[Len(hist')] =
                CallRecord("allocate", Head(queue).id,
                           Head(queue).piece_sizes, memory.page_table,
                           memory'.page_table, 1, clock)
           /\ trace' = Append(trace, Event("moves", Head(queue).id, clock))
           /\ Cardinality(Owned(memory'.page_table, Head(queue).id)) > 0
     ]_vars

\* the drain has emptied a queue that held two processes in one tick and
\* stopped at the is_queue_empty test
C18_Witness ==
  /\ pc = "advance"
  /\ queue = << >>
  /\ Len(trace) >= 2
  /\ trace[Len(trace)].kind = "moves"
  /\ trace[Len(trace) - 1].kind = "moves"
  /\ trace[Len(trace)].t = clock
  /\ trace[Len(trace) - 1].t = clock

(***************************************************************************)
(* C19  An oversized process starves the queue: a process whose total      *)
(* pages needed exceed total_pages is never admitted; from the moment      *)
(* every process enqueued before it has left the queue it is the front of  *)
(* the queue, up to the end of the run; and no process enqueued after it   *)
(* is ever admitted or completes, however small it is.                     *)
(***************************************************************************)
Oversized(i) == Required(i) > memory.total_pages

C19_OversizedStarves ==
  \A i \in Procs :
    Oversized(i) =>
      /\ ~Admitted(i) /\ ~HasMoved(i) /\ ~HasCompleted(i)
      /\ Owned(memory.page_table, processes[i].id) = {}
      /\ HasArrived(i) => InQueue(i)
      /\ (HasArrived(i) /\ \A j \in Procs : EnqueuedBefore(j, i) => HasMoved(j))
           => /\ queue # << >>
              /\ Head(queue).id = processes[i].id
      /\ \A j \in Procs :
           EnqueuedBefore(i, j) =>
             /\ InQueue(j)
             /\ ~Admitted(j) /\ ~HasMoved(j) /\ ~HasCompleted(j)

\* the run has ended with all of memory free, the oversized process at the
\* front of the queue and, behind it, a process that needs a single frame
C19_Witness ==
  /\ pc = "done"
  /\ FreePages(memory) = memory.total_pages
  /\ \E i, j \in Procs :
       /\ Oversized(i)
       /\ Required(j) = 1
       /\ EnqueuedBefore(i, j)
       /\ Len(queue) = 2
       /\ queue[1].id = processes[i].id
       /\ queue[2].id = processes[j].id

(***************************************************************************)
(* C20  Eventual completion for well-formed input: when the ids are        *)
(* unique, every lifetime is positive, every arrival tick is at least 0,   *)
(* every process needs at most total_pages pages, and the tick bound       *)
(* covers the last arrival plus the lifetimes run one after the other,     *)
(* then every process is eventually admitted and completes, every frame    *)
(* is free again and the queue is empty.                                   *)
(***************************************************************************)
RECURSIVE SumLifetime(_)
SumLifetime(S) ==
  IF S = {} THEN 0
  ELSE LET x == CHOOSE y \in S : TRUE
       IN processes[x].lifetime + SumLifetime(S \ {x})

LastArrival ==
  CHOOSE a \in {processes[i].arrival_time : i \in Procs} :
    \A i \in Procs : processes[i].arrival_time <= a

WellFormedInput ==
  /\ \A i, j \in Procs : processes[i].id = processes[j].id => i = j
  /\ \A i \in Procs :
       /\ processes[i].lifetime > 0
       /\ processes[i].arrival_time >= 0
       /\ Required(i) <= memory.total_pages

TickBoundCovers == LastArrival + SumLifetime(Procs) <= MAX_TICK

AllCompleted ==
  /\ \A i \in Procs : Admitted(i) /\ HasMoved(i) /\ HasCompleted(i)
  /\ FreePages(memory) = memory.total_pages
  /\ queue = << >>
  /\ completed_processes = NumProcs

C20_EventualCompletion ==
  (pc # "api" /\ WellFormedInput /\ TickBoundCovers) ~> [](AllCompleted)

\* every process has completed in a run in which one of them had to wait in
\* the queue for the frames of another
C20_Witness ==
  /\ WellFormedInput
  /\ TickBoundCovers
  /\ AllCompleted
  /\ \E i \in Procs : processes[i].start_time > processes[i].arrival_time

(***************************************************************************)
(* C21  Each lifecycle step happens at most once per process: over the     *)
(* whole run a process is enqueued at most once, admitted at most once     *)
(* (its start_time is written once, in the step that admits it, and never  *)
(* changes afterwards) and completes at most once; so completed_processes  *)
(* is the number of processes that completed, at most the number of        *)
(* processes, and total_turnaround holds one term per completed process.   *)
(***************************************************************************)
QueueSlots(id) == {k \in DOMAIN queue : queue[k].id = id}

C21_OncePerProcess ==
  /\ [](\A i \in Procs :
          LET id == processes[i].id
          IN /\ Cardinality(Events("arrives", id)) <= 1
             /\ Cardinality(Events("moves", id)) <= 1
             /\ Cardinality(Events("completes", id)) <= 1
             /\ Cardinality(QueueSlots(id)) <= 1
             /\ Admitted(i) =>
                  \E k \in Events("moves", id) :
                    trace[k].t = processes[i].start_time)
  /\ [](/\ completed_processes = Cardinality(CompletesEvents)
        /\ completed_processes
             = Cardinality({i \in Procs : HasCompleted(i)})
        /\ completed_processes <= NumProcs
        /\ total_turnaround = SumTurnaround(CompletesEvents))
  /\ [][ \A i \in Procs :
           /\ Admitted(i) =>
                processes'[i].start_time = processes[i].start_time
           /\ processes'[i].start_time # processes[i].start_time =>
                /\ pc = "admit"
                /\ Head(queue).id = processes[i].id
                /\ processes'[i].start_time = clock
     ]_vars

\* the run has ended with every process completed, one of them after a wait
\* in the queue behind another that ran in the meantime
C21_Witness ==
  /\ pc = "done"
  /\ completed_processes = NumProcs
  /\ \A i \in Procs :
       /\ Cardinality(Events("arrives", processes[i].id)) = 1
       /\ Cardinality(Events("moves", processes[i].id)) = 1
       /\ Cardinality(Events("completes", processes[i].id)) = 1
  /\ \E i \in Procs : processes[i].start_time > processes[i].arrival_time

====
